---- MODULE Spec2Model ----
(***************************************************************************)
(* Acquisition pipeline of the Stock-App API: the cache-or-crawl           *)
(* orchestrators of the five entity types (daily price, monthly revenue,   *)
(* quarterly EPS, capital, cash flow), their two source fetchers, the      *)
(* storage read and the two-statement upsert, and the controllers that     *)
(* turn the orchestrator's outcome into an HTTP response.                  *)
(*                                                                         *)
(* Numbers are held in thousandths (1005 stands for 1.005) so that the     *)
(* DECIMAL(p, s) columns of the schema can round them.                     *)
(***************************************************************************)
EXTENDS Integers, Sequences, FiniteSets, TLC

----------------------------------------------------------------------------
(* Bounds of the model *)

\* number of HTTP requests served in one behaviour
MaxRequests == 2

\* longest record list one source response can carry
MaxRows == 1

Requests == 1..MaxRequests

\* longest record batch handed to a save function on its own
MaxBatch == 2

\* number of earlier upserts that built the storage a batch is submitted to
MaxSeeds == 1

----------------------------------------------------------------------------
(* Vocabulary *)

EntityTypes == {"daily", "monthly", "eps", "capital", "cashflow"}

\* "sii" is the primary market (TWSE for daily prices), "otc" the secondary
\* market (TPEX for daily prices).
Sources == {"sii", "otc"}

\* "700001" has six characters: a warrant-like identifier
Codes == {"2330", "700001"}

\* period strings that pass the controllers' request validation
\* (z.iso.date(), /^\d{4}-\d{2}$/, /^\d{4}-Q[1-4]$/), one per entity type
\* (a string is the sequence of its characters)
ValidDates ==
  [daily    |-> <<"2", "0", "2", "4", "-", "0", "1", "-", "0", "2">>,
   monthly  |-> <<"2", "0", "2", "4", "-", "0", "1">>,
   eps      |-> <<"2", "0", "2", "4", "-", "Q", "2">>,
   capital  |-> <<"2", "0", "2", "4", "-", "Q", "2">>,
   cashflow |-> <<"2", "0", "2", "4", "-", "Q", "2">>]

\* a second valid period of each entity type
OtherDates ==
  [daily    |-> <<"2", "0", "2", "4", "-", "0", "1", "-", "0", "3">>,
   monthly  |-> <<"2", "0", "2", "4", "-", "0", "2">>,
   eps      |-> <<"2", "0", "2", "4", "-", "Q", "3">>,
   capital  |-> <<"2", "0", "2", "4", "-", "Q", "3">>,
   cashflow |-> <<"2", "0", "2", "4", "-", "Q", "3">>]

Dates(type) == {ValidDates[type], OtherDates[type]}

\* values the extractors can produce, in thousandths: parseFloat keeps the
\* fractional digits of the cell, parseInt yields whole numbers
SourceVals(type) ==
  IF type \in {"capital", "cashflow"} THEN <<1000, 2000>> ELSE <<1000, 1005>>

\* the second numeric field of a record, where the entity type has one
\* (daily: volume; monthly: lastMonthRevenue; cash flow: investingCashFlow),
\* in thousandths; EPS and capital records carry a single numeric field
SourceAux(type) == IF type \in {"eps", "capital"} THEN 0 ELSE 5000

\* records a source can report: the two markets report the same security
\* under different names and values, and the secondary daily price source
\* also reports a six-character identifier
Records(type, src) ==
  IF src = "sii"
  THEN {[code |-> "2330", name |-> "TSMC", val |-> SourceVals(type)[1],
          aux |-> SourceAux(type)]}
  ELSE {[code |-> "2330", name |-> "Taiwan Semi", val |-> SourceVals(type)[2],
          aux |-> SourceAux(type)]}
       \cup (IF type = "daily"
             THEN {[code |-> "700001", name |-> "TSMC Warrant",
                    val |-> SourceVals(type)[1], aux |-> SourceAux(type)]}
             ELSE {})

RECURSIVE SeqsUpTo(_, _)
SeqsUpTo(S, n) ==
  IF n = 0 THEN {<<>>}
  ELSE LET shorter == SeqsUpTo(S, n - 1)
       IN  shorter \cup {Append(s, x) : s \in {t \in shorter : Len(t) = n - 1}, x \in S}

\* record batches a save function can be handed
Batches(type) ==
  SeqsUpTo(Records(type, "sii") \cup Records(type, "otc"), MaxBatch)

RowLists(type, src) == SeqsUpTo(Records(type, src), MaxRows)

----------------------------------------------------------------------------
(* Period keys *)

Digits == <<"0", "1", "2", "3", "4", "5", "6", "7", "8", "9">>

IsDigit(c) == \E n \in 1..10 : Digits[n] = c

DigitVal(c) == (CHOOSE n \in 1..10 : Digits[n] = c) - 1

\* parseInt(s, 10) of a string of digits
RECURSIVE parseInt(_)
parseInt(s) ==
  IF s = <<>> THEN 0
  ELSE parseInt(SubSeq(s, 1, Len(s) - 1)) * 10 + DigitVal(s[Len(s)])

\* String(n) of a number n >= 0
RECURSIVE NumToString(_)
NumToString(n) ==
  IF n < 10 THEN <<Digits[n + 1]>>
  ELSE NumToString(n \div 10) \o <<Digits[(n % 10) + 1]>>

\* s.padStart(2, "0")
padStart2(s) == IF Len(s) < 2 THEN <<"0">> \o s ELSE s

\* dateStr.match(/^(\d{4})-Q([1-4])$/)
QuarterMatch(s) ==
  /\ Len(s) = 7
  /\ \A i \in 1..4 : IsDigit(s[i])
  /\ s[5] = "-" /\ s[6] = "Q"
  /\ s[7] \in {"1", "2", "3", "4"}

\* what a function that threw yields in place of a string
ThrownError == <<"Error">>

\* a month string of quarterToSqlDate computed with quarter * 3
QuarterEndMonth(quarter) == padStart2(NumToString(quarter * 3))

\* a month string of quarterToSqlDate that is the quarter itself
QuarterAsMonth(quarter) == padStart2(NumToString(quarter))

\* String((quarter - 1) * 3 + 1).padStart(2, "0")
QuarterFirstMonth(quarter) == padStart2(NumToString((quarter - 1) * 3 + 1))

\* quarterToSqlDate: YYYY-QN -> YYYY-MM-01 with MM = (N - 1) * 3 + 1; throws
\* when the string does not match
quarterToSqlDate(date) ==
  IF ~QuarterMatch(date) THEN ThrownError
  ELSE SubSeq(date, 1, 4) \o <<"-">> \o QuarterFirstMonth(parseInt(<<date[7]>>))
       \o <<"-", "0", "1">>

\* `${date}-01`
monthStorageDate(date) == date \o <<"-", "0", "1">>

\* the key under which the get function of an entity type reads
\* (getDailyPricesByDate: date; getMonthlyRevenuesByDate: `${date}-01`;
\* getQuarterly...ByDate: quarterToSqlDate(date))
readDate(type, date) ==
  CASE type = "daily" -> date
    [] type = "monthly" -> monthStorageDate(date)
    [] OTHER -> quarterToSqlDate(date)

\* the key under which the save function of an entity type writes
storageDate(type, date) ==
  CASE type = "daily" -> date
    [] type = "monthly" -> monthStorageDate(date)
    [] OTHER -> quarterToSqlDate(date)

----------------------------------------------------------------------------
(* Storage: the stocks table and one period table per entity type.  Rows   *)
(* are kept in insertion order (the order of the auto-increment id).       *)

\* scale of the DECIMAL column that holds the value of an entity type
DecimalScale(type) ==
  CASE type = "daily" -> 2
    [] type = "monthly" -> 2
    [] type = "eps" -> 4
    [] OTHER -> 0

\* scale of the column that holds the second numeric field (volume is a
\* BIGINT, lastMonthRevenue a DECIMAL(20, 2), investingCashFlow a DECIMAL(20, 0))
AuxScale(type) == IF type = "monthly" THEN 2 ELSE 0

Pow10(n) == CASE n = 0 -> 1 [] n = 1 -> 10 [] n = 2 -> 100 [] OTHER -> 1000

\* a number written to a column of s fractional digits: rounded half away
\* from zero (v is in thousandths)
ToScale(s, v) ==
  IF s >= 3 THEN v
  ELSE LET unit == Pow10(3 - s)
           mag == IF v < 0 THEN -v ELSE v
           r == ((mag + unit \div 2) \div unit) * unit
       IN  IF v < 0 THEN -r ELSE r

\* item.x.toString() written to the DECIMAL(p, s) column of the entity type
ToColumn(type, v) == ToScale(DecimalScale(type), v)

HasCode(st, code) == \E i \in 1..Len(st) : st[i].code = code

\* a Map that keeps the name of the first occurrence of a code
RECURSIVE uniqueStocksFirstName(_)
uniqueStocksFirstName(data) ==
  IF data = <<>> THEN <<>>
  ELSE LET n == Len(data)
           init == uniqueStocksFirstName(SubSeq(data, 1, n - 1))
       IN  IF HasCode(init, data[n].code) THEN init
           ELSE Append(init, [code |-> data[n].code, name |-> data[n].name])

\* new Map(); data.forEach(item => uniqueStocks.set(item.code, {code, name}));
\* Array.from(uniqueStocks.values()): one entry per code, in the order of the
\* first occurrence, carrying the name of the last occurrence
RECURSIVE uniqueStocks(_)
uniqueStocks(data) ==
  IF data = <<>> THEN <<>>
  ELSE LET n == Len(data)
           init == uniqueStocks(SubSeq(data, 1, n - 1))
           item == [code |-> data[n].code, name |-> data[n].name]
       IN  IF HasCode(init, item.code)
           THEN [i \in 1..Len(init) |->
                   IF init[i].code = item.code THEN item ELSE init[i]]
           ELSE Append(init, item)

\* a stocks statement that writes nothing
SkipStocksStmt(st, values) == st

\* a plain INSERT INTO stocks
InsertStocksStmt(st, values) == st \o values

\* INSERT INTO stocks ... ON DUPLICATE KEY UPDATE name = VALUES(name)
RECURSIVE UpsertStocksStmt(_, _)
UpsertStocksStmt(st, values) ==
  IF values = <<>> THEN st
  ELSE LET v == Head(values)
           st1 == IF HasCode(st, v.code)
                  THEN [i \in 1..Len(st) |->
                          IF st[i].code = v.code
                          THEN [st[i] EXCEPT !.name = v.name] ELSE st[i]]
                  ELSE Append(st, v)
       IN  UpsertStocksStmt(st1, Tail(values))

HasKey(tbl, code, date) ==
  \E i \in 1..Len(tbl) : tbl[i].stockCode = code /\ tbl[i].date = date

\* data.map(item => ({stockCode: item.code, date: storageDate, x: item.x.toString()}))
RowValues(type, data, key) ==
  [i \in 1..Len(data) |->
     [stockCode |-> data[i].code, date |-> key, val |-> ToColumn(type, data[i].val),
      aux |-> ToScale(AuxScale(type), data[i].aux)]]

\* a plain INSERT
InsertRowsStmt(tbl, values) == tbl \o values

\* an upsert whose conflict target is the security code alone
RECURSIVE UpsertRowsStmtAnyDate(_, _)
UpsertRowsStmtAnyDate(tbl, values) ==
  IF values = <<>> THEN tbl
  ELSE LET v == Head(values)
           t1 == IF \E i \in 1..Len(tbl) : tbl[i].stockCode = v.stockCode
                 THEN [i \in 1..Len(tbl) |->
                         IF tbl[i].stockCode = v.stockCode
                         THEN [tbl[i] EXCEPT !.val = v.val, !.aux = v.aux]
                         ELSE tbl[i]]
                 ELSE Append(tbl, v)
       IN  UpsertRowsStmtAnyDate(t1, Tail(values))

\* INSERT IGNORE: on a duplicate key the stored row is kept
RECURSIVE InsertIgnoreRowsStmt(_, _)
InsertIgnoreRowsStmt(tbl, values) ==
  IF values = <<>> THEN tbl
  ELSE LET v == Head(values)
       IN  InsertIgnoreRowsStmt(IF HasKey(tbl, v.stockCode, v.date) THEN tbl
                                ELSE Append(tbl, v), Tail(values))

\* INSERT INTO <table> ... ON DUPLICATE KEY UPDATE x = VALUES(x), ...
RECURSIVE UpsertRowsStmt(_, _)
UpsertRowsStmt(tbl, values) ==
  IF values = <<>> THEN tbl
  ELSE LET v == Head(values)
           t1 == IF HasKey(tbl, v.stockCode, v.date)
                 THEN [i \in 1..Len(tbl) |->
                         IF tbl[i].stockCode = v.stockCode /\ tbl[i].date = v.date
                         THEN [tbl[i] EXCEPT !.val = v.val, !.aux = v.aux]
                         ELSE tbl[i]]
                 ELSE Append(tbl, v)
       IN  UpsertRowsStmt(t1, Tail(values))

\* the foreign key stock_code -> stocks.code of every period table
ForeignKeyOk(st, values) ==
  \A i \in 1..Len(values) : HasCode(st, values[i].stockCode)

\* the stocks rows an INNER JOIN pairs with one period row
RECURSIVE JoinStocks(_, _)
JoinStocks(row, st) ==
  IF st = <<>> THEN <<>>
  ELSE (IF Head(st).code = row.stockCode
        THEN <<[code |-> Head(st).code, name |-> Head(st).name, val |-> row.val,
                 aux |-> row.aux]>>
        ELSE <<>>) \o JoinStocks(row, Tail(st))

\* a read that finds no row
SelectNothing(tbl, st, key) == <<>>

\* SELECT stocks.code, stocks.name, t.x FROM t INNER JOIN stocks
\*   ON t.stock_code = stocks.code WHERE t.date = key; then Number(record.x)
RECURSIVE SelectByDate(_, _, _)
SelectByDate(tbl, st, key) ==
  IF tbl = <<>> THEN <<>>
  ELSE (IF Head(tbl).date = key THEN JoinStocks(Head(tbl), st) ELSE <<>>)
       \o SelectByDate(Tail(tbl), st, key)

----------------------------------------------------------------------------
(* Source fetchers.  An HTTP exchange is described by what the fetcher     *)
(* looks at: whether the transport threw, the status, whether a body was   *)
(* delivered, its stat field, its tables array, whether parsing the target *)
(* throws, and the records parsing yields.                                 *)

GoodResponse(rows) ==
  [net |-> "ok", status |-> 200, body |-> "present", stat |-> "OK",
   isArray |-> TRUE, nTables |-> 9, parse |-> "ok", rows |-> rows]

\* the payload a failing exchange carries (the fetcher must not use it)
SomeRows(type, src) == CHOOSE rows \in RowLists(type, src) : Len(rows) = MaxRows

\* the exchanges a fetcher can see: a good one with any payload, and every
\* way one exchange can go wrong
HttpResponses(type, src) ==
  {GoodResponse(rows) : rows \in RowLists(type, src)} \cup
  {[GoodResponse(SomeRows(type, src)) EXCEPT !.net = "error"],
   [GoodResponse(SomeRows(type, src)) EXCEPT !.status = 204],
   [GoodResponse(SomeRows(type, src)) EXCEPT !.body = "absent"],
   [GoodResponse(SomeRows(type, src)) EXCEPT !.stat = "ok"],
   [GoodResponse(SomeRows(type, src)) EXCEPT !.stat = "FAIL"],
   [GoodResponse(SomeRows(type, src)) EXCEPT !.isArray = FALSE],
   [GoodResponse(SomeRows(type, src)) EXCEPT !.nTables = 0],
   [GoodResponse(SomeRows(type, src)) EXCEPT !.nTables = 1],
   [GoodResponse(SomeRows(type, src)) EXCEPT !.parse = "throw"]}

\* outcome of a fetcher: the promise rejects (exc) or resolves to rows;
\* failed records that a failure line was logged
Thrown == [exc |-> TRUE, rows |-> <<>>, failed |-> TRUE]
Returned(rows) == [exc |-> FALSE, rows |-> rows, failed |-> FALSE]
ReturnedEmptyLogged == [exc |-> FALSE, rows |-> <<>>, failed |-> TRUE]

\* a catch block that rethrows
CatchRethrow(outcome) == outcome

\* catch (err) { log(...); return []; }
CatchReturnEmpty(outcome) ==
  IF outcome.exc THEN ReturnedEmptyLogged ELSE outcome

\* the try block of DailyPriceService.fetchTwse
fetchTwseTry(resp) ==
  IF resp.net = "error" THEN Thrown
  ELSE IF resp.status # 200 THEN ReturnedEmptyLogged
  ELSE IF resp.body = "absent" THEN Thrown      \* response.data.stat of undefined
  ELSE IF resp.stat # "OK" THEN ReturnedEmptyLogged
  ELSE IF ~resp.isArray THEN ReturnedEmptyLogged
  ELSE IF ~(resp.nTables > 8) THEN ReturnedEmptyLogged
  ELSE IF resp.parse = "throw" THEN Thrown
  ELSE Returned(resp.rows)

fetchTwse(resp) == CatchReturnEmpty(fetchTwseTry(resp))

\* parsed.filter((row) => row.code.length < 6)
FilterMainStocks(rows) == SelectSeq(rows, LAMBDA row : Len(row.code) < 6)

\* the try block of DailyPriceService.fetchTpex
fetchTpexTry(resp) ==
  IF resp.net = "error" THEN Thrown
  ELSE IF resp.status # 200 THEN ReturnedEmptyLogged
  ELSE IF resp.body = "absent" THEN Thrown
  ELSE IF resp.stat # "ok" /\ resp.stat # "OK" THEN ReturnedEmptyLogged
  ELSE IF ~resp.isArray THEN ReturnedEmptyLogged
  ELSE IF ~(resp.nTables > 0) THEN ReturnedEmptyLogged
  ELSE IF resp.parse = "throw" THEN Thrown
  ELSE Returned(FilterMainStocks(resp.rows))

fetchTpex(resp) == CatchReturnEmpty(fetchTpexTry(resp))

\* a try block that does not look at the status
fetchFromSourceTryAnyStatus(resp) ==
  IF resp.net = "error" THEN Thrown
  ELSE IF resp.body = "absent" \/ resp.parse = "throw" THEN Thrown
  ELSE Returned(resp.rows)

\* the try block of fetchFromSource (EPS, capital, cash flow, monthly revenue):
\* a status other than 200 is thrown inside the try; load() of a missing body
\* and a failing decode or parse throw as well
fetchFromSourceTry(resp) ==
  IF resp.net = "error" THEN Thrown
  ELSE IF resp.status # 200 THEN Thrown
  ELSE IF resp.body = "absent" \/ resp.parse = "throw" THEN Thrown
  ELSE Returned(resp.rows)

fetchFromSource(resp) == CatchReturnEmpty(fetchFromSourceTry(resp))

\* the fetcher an orchestrator calls for a source
Fetcher(type, src, resp) ==
  IF type = "daily"
  THEN (IF src = "sii" THEN fetchTwse(resp) ELSE fetchTpex(resp))
  ELSE fetchFromSource(resp)


----------------------------------------------------------------------------
(* Extractors.  A cell text is a sequence of one-character strings; a      *)
(* header name counts as one character of a header cell's text.            *)

MaxCell == 4

CellChars == {"1", "2", "-", "(", ")", ",", " ", "x"}

CellTexts == SeqsUpTo(CellChars, MaxCell)

IsSpace(c) == c = " "

Has(s, c) == \E i \in 1..Len(s) : s[i] = c

\* String.prototype.trim
RECURSIVE trim(_)
trim(s) ==
  IF s = <<>> THEN s
  ELSE IF IsSpace(s[1]) THEN trim(Tail(s))
  ELSE IF IsSpace(s[Len(s)]) THEN trim(SubSeq(s, 1, Len(s) - 1))
  ELSE s

\* value.replace(/,/g, "")
NotComma(c) == c # ","

removeCommas(s) == SelectSeq(s, NotComma)

\* value.replace(/[^0-9-]/g, "")
DigitOrDash(c) == IsDigit(c) \/ c = "-"

stripToDigitsAndDash(s) == SelectSeq(s, DigitOrDash)

NaN == [nan |-> TRUE, n |-> 0]

Num(n) == [nan |-> FALSE, n |-> n]

\* The longest prefix of s made of digits
RECURSIVE DigitPrefix(_)
DigitPrefix(s) ==
  IF s = <<>> \/ ~IsDigit(s[1]) THEN <<>>
  ELSE <<s[1]>> \o DigitPrefix(Tail(s))

\* parseInt(s, 10) of any string: leading white space, an optional sign,
\* then the longest run of digits; NaN when that run is empty.
parseInt10(text) ==
  LET s      == trim(text)
      signed == s # <<>> /\ s[1] \in {"-", "+"}
      body   == IF signed THEN Tail(s) ELSE s
      digits == DigitPrefix(body)
  IN  IF digits = <<>> THEN NaN
      ELSE IF signed /\ s[1] = "-" THEN Num(-parseInt(digits))
      ELSE Num(parseInt(digits))

\* parseFloat(s) in thousandths: as parseInt10, with an optional fraction
parseFloat(text) ==
  LET s      == trim(text)
      signed == s # <<>> /\ s[1] \in {"-", "+"}
      body   == IF signed THEN Tail(s) ELSE s
      whole  == DigitPrefix(body)
      rest   == SubSeq(body, Len(whole) + 1, Len(body))
      frac   == IF rest # <<>> /\ rest[1] = "." THEN DigitPrefix(Tail(rest)) ELSE <<>>
      kept   == SubSeq(frac, 1, IF Len(frac) < 3 THEN Len(frac) ELSE 3)
      mag    == parseInt(whole) * 1000 + parseInt(kept) * Pow10(3 - Len(kept))
  IN  IF whole = <<>> /\ frac = <<>> THEN NaN
      ELSE IF signed /\ s[1] = "-" THEN Num(-mag)
      ELSE Num(mag)

Abs(n) == IF n < 0 THEN -n ELSE n

\* A normalizer that keeps the sign of the parsed number
parseNumberKeepSign(value) ==
  LET result == parseInt10(stripToDigitsAndDash(value))
  IN  IF value = <<>> \/ value = <<"-">> \/ trim(value) = <<>> THEN 0
      ELSE IF result.nan THEN 0
      ELSE result.n

parseNumber(value) ==
  LET isNegative == Has(value, "(") /\ Has(value, ")")
      cleanValue == stripToDigitsAndDash(value)
      result     == parseInt10(cleanValue)
  IN  IF value = <<>> \/ value = <<"-">> \/ trim(value) = <<>> THEN 0
      ELSE IF result.nan THEN 0
      ELSE IF isNegative THEN -Abs(result.n)
      ELSE result.n

\* val.replace(/,/g, "").trim(), parseFloat, NaN to 0
parseNum(val) ==
  LET num == parseFloat(trim(removeCommas(val)))
  IN  IF num.nan THEN 0 ELSE num.n

\* Header names, each one character of a header cell's text
Other == <<"Other">>

TARGET_COLUMNS_EPS == << <<"CompanyCode">>, <<"CompanyName">>, <<"BasicEPS">> >>

TARGET_COLUMNS_CAPITAL == << <<"CompanyCode">>, <<"CompanyName">>, <<"Capital">> >>

TARGET_COLUMNS_CASHFLOW ==
  << <<"CompanyCode">>, <<"CompanyName">>, <<"Operating">>, <<"Investing">>,
     <<"Financing">>, <<"ExchangeRate">>, <<"NetChange">>, <<"Beginning">>,
     <<"Ending">> >>

TwseColumns ==
  << <<"SecurityCode">>, <<"SecurityName">>, <<"Open">>, <<"High">>, <<"Low">>,
     <<"Close">>, <<"Volume">> >>

LegacyColumns == << <<"SecurityCode">>, <<"SecurityName">>, <<"Close">> >>

\* The monthly extractor names its target fields only; the table's header
\* cells carry the same names.
COLUMNS ==
  << <<"code">>, <<"name">>, <<"monthlyRevenue">>, <<"lastMonthRevenue">>,
     <<"lastYearMonthlyRevenue">>, <<"previousMonthChangePercent">>,
     <<"lastYearSameMonthChangePercent">>, <<"cumulativeRevenue">>,
     <<"lastYearCumulativeRevenue">>, <<"cumulativePreviousPeriodChangePercent">>,
     <<"remarks">> >>

ExtractorKinds == {"daily", "legacy", "monthly", "eps", "capital", "cashflow"}

HtmlKinds == {"eps", "capital", "cashflow"}

TARGET_COLUMNS(kind) ==
  CASE kind = "eps" -> TARGET_COLUMNS_EPS
    [] kind = "capital" -> TARGET_COLUMNS_CAPITAL
    [] kind = "cashflow" -> TARGET_COLUMNS_CASHFLOW
    [] kind = "daily" -> TwseColumns
    [] kind = "legacy" -> LegacyColumns
    [] OTHER -> COLUMNS

Null == <<"null">>

Record(code, name, nums, texts) ==
  [code |-> code, name |-> name, nums |-> nums, texts |-> texts]

\* fieldIndices[fieldName]: the last position of the name, 0 when undefined
fieldIndices(fields, name) ==
  IF \E i \in 1..Len(fields) : fields[i] = name
  THEN CHOOSE i \in 1..Len(fields) :
         fields[i] = name /\ \A j \in (i + 1)..Len(fields) : fields[j] # name
  ELSE 0

\* One row of the JSON table extractors: a key is set when its field exists
\* and the row reaches it; the row is kept when every key is set.
jsonRow(row, fields, columnsToInclude, numeric) ==
  LET n       == Len(columnsToInclude)
      idx     == [k \in 1..n |-> fieldIndices(fields, columnsToInclude[k])]
      set(k)  == idx[k] # 0 /\ idx[k] <= Len(row)
      raw(k)  == row[idx[k]]
  IN  IF \A k \in 1..n : set(k)
      THEN << Record(raw(1), raw(2),
                     IF numeric THEN [k \in 1..(n - 2) |-> parseNum(raw(k + 2))] ELSE <<>>,
                     IF numeric THEN <<>> ELSE [k \in 1..(n - 2) |-> raw(k + 2)]) >>
      ELSE <<>>

RECURSIVE jsonRows(_, _, _, _)
jsonRows(data, fields, columnsToInclude, numeric) ==
  IF data = <<>> THEN <<>>
  ELSE jsonRow(Head(data), fields, columnsToInclude, numeric)
         \o jsonRows(Tail(data), fields, columnsToInclude, numeric)

DailyPriceServiceParseData(inputObject) ==
  jsonRows(inputObject.rows, inputObject.headers, TwseColumns, TRUE)

CrawlerServiceParseData(inputObject) ==
  jsonRows(inputObject.rows, inputObject.headers, LegacyColumns, FALSE)

\* headers.findIndex(text.trim() === name): the first position, 0 for -1
findIndex(headers, name) ==
  IF \E i \in 1..Len(headers) : trim(headers[i]) = name
  THEN CHOOSE i \in 1..Len(headers) :
         trim(headers[i]) = name /\ \A j \in 1..(i - 1) : trim(headers[j]) # name
  ELSE 0

columnIndices(kind, headers) ==
  [k \in 1..Len(TARGET_COLUMNS(kind)) |-> findIndex(headers, TARGET_COLUMNS(kind)[k])]

\* cells.eq(idx).text().trim(): the empty text when the row has no such cell
cellText(cells, idx) == IF idx <= Len(cells) THEN trim(cells[idx]) ELSE <<>>

epsRow(cells, idx) ==
  LET code == cellText(cells, idx[1])
      name == cellText(cells, idx[2])
      eps  == parseFloat(removeCommas(cellText(cells, idx[3])))
  IN  IF code # <<>> /\ name # <<>> /\ ~eps.nan
      THEN << Record(code, name, <<eps.n>>, <<>>) >>
      ELSE <<>>

capitalRow(cells, idx) ==
  LET code    == cellText(cells, idx[1])
      name    == cellText(cells, idx[2])
      capital == parseInt10(removeCommas(cellText(cells, idx[3])))
  IN  IF code # <<>> /\ name # <<>> /\ ~capital.nan
      THEN << Record(code, name, <<capital.n * 1000>>, <<>>) >>
      ELSE <<>>

cashFlowRow(cells, idx) ==
  LET code == cellText(cells, idx[1])
      name == cellText(cells, idx[2])
  IN  IF code # <<>> /\ name # <<>>
      THEN << Record(code, name,
                     [k \in 1..7 |-> parseNumber(cellText(cells, idx[k + 2])) * 1000],
                     <<>>) >>
      ELSE <<>>

htmlRow(kind, cells, idx) ==
  CASE kind = "eps" -> epsRow(cells, idx)
    [] kind = "capital" -> capitalRow(cells, idx)
    [] OTHER -> cashFlowRow(cells, idx)

RECURSIVE htmlRows(_, _, _)
htmlRows(kind, rows, idx) ==
  IF rows = <<>> THEN <<>>
  ELSE htmlRow(kind, Head(rows), idx) \o htmlRows(kind, Tail(rows), idx)

\* A table whose rows are read even when a required name is missing; the
\* cell of a missing column reads as the empty text
htmlTableNoHeaderCheck(kind, table) ==
  htmlRows(kind, table.rows,
           [k \in 1..Len(TARGET_COLUMNS(kind)) |->
              LET i == findIndex(table.headers, TARGET_COLUMNS(kind)[k])
              IN  IF i = 0 THEN Len(table.headers) + 1 ELSE i])

\* One table.hasBorder: skipped when a required name is missing
htmlTable(kind, table) ==
  LET idx == columnIndices(kind, table.headers)
  IN  IF \E k \in 1..Len(idx) : idx[k] = 0 THEN <<>>
      ELSE htmlRows(kind, table.rows, idx)

RECURSIVE htmlParseData(_, _)
htmlParseData(kind, tbls) ==
  IF tbls = <<>> THEN <<>>
  ELSE htmlTable(kind, Head(tbls)) \o htmlParseData(kind, Tail(tbls))

\* slice(0, -1)
AllButLast(s) == SubSeq(s, 1, Len(s) - 1)

monthlyRow(tds) ==
  IF Len(tds) # Len(COLUMNS) THEN <<>>
  ELSE LET code    == trim(tds[1])
           name    == trim(tds[2])
           remarks == IF trim(tds[11]) = <<>> THEN Null ELSE trim(tds[11])
       IN  IF code # <<>> /\ name # <<>>
           THEN << Record(code, name, [k \in 1..8 |-> parseNum(tds[k + 2])], <<remarks>>) >>
           ELSE <<>>

RECURSIVE monthlyRows(_)
monthlyRows(rows) ==
  IF rows = <<>> THEN <<>>
  ELSE monthlyRow(Head(rows)) \o monthlyRows(Tail(rows))

RECURSIVE monthlyTables(_)
monthlyTables(tbls) ==
  IF tbls = <<>> THEN <<>>
  ELSE monthlyRows(AllButLast(Head(tbls).rows)) \o monthlyTables(Tail(tbls))

monthlyParseData(tbls) == monthlyTables(AllButLast(tbls))

\* What the extractor of a kind returns for a response; the JSON
\* extractors are given the one table their fetcher picks.
parseData(kind, tbls) ==
  CASE kind = "daily" -> DailyPriceServiceParseData(tbls[1])
    [] kind = "legacy" -> CrawlerServiceParseData(tbls[1])
    [] kind = "monthly" -> monthlyParseData(tbls)
    [] OTHER -> htmlParseData(kind, tbls)

----------------------------------------------------------------------------
(* Orchestrator policies and controllers *)

\* What each service does when both sources together yield no record:
\* return [] or throw new DataNotFoundException(...).
fetchDailyPricesOnEmpty == "return"
fetchMonthlyRevenuesOnEmptyThrows == "DataNotFoundException"
fetchMonthlyRevenuesOnEmpty == "return"
fetchQuarterlyEpsOnEmpty == "return"
fetchQuarterlyCapitalOnEmpty == "DataNotFoundException"
fetchQuarterlyCashFlowOnEmpty == "DataNotFoundException"

OnEmpty(type) ==
  CASE type = "daily" -> fetchDailyPricesOnEmpty
    [] type = "monthly" -> fetchMonthlyRevenuesOnEmpty
    [] type = "eps" -> fetchQuarterlyEpsOnEmpty
    [] type = "capital" -> fetchQuarterlyCapitalOnEmpty
    [] OTHER -> fetchQuarterlyCashFlowOnEmpty

InternalError == [status |-> 500, success |-> FALSE, count |-> 0, data |-> <<>>]

\* res.status(error.statusCode).json({ success: false, message })
NotFound == [status |-> 404, success |-> FALSE, count |-> 0, data |-> <<>>]

\* catch block of getDailyPriceController: every error is answered with 500
getDailyPriceControllerCatch(error) == InternalError

\* a catch block that answers every error as not found
AnswerNotFound(error) == NotFound

\* catch block of the monthly revenue, EPS and cash flow controllers: a
\* DataNotFoundException is answered with its statusCode, the rest with 500
NotFoundAwareCatch(error) ==
  IF error = "DataNotFoundException" THEN NotFound ELSE InternalError

\* catch block of getQuarterlyCapitalController
getQuarterlyCapitalControllerCatch(error) ==
  IF error = "DataNotFoundException" THEN NotFound ELSE InternalError

ControllerCatch(type, error) ==
  CASE type = "daily" -> getDailyPriceControllerCatch(error)
    [] type = "capital" -> getQuarterlyCapitalControllerCatch(error)
    [] OTHER -> NotFoundAwareCatch(error)

\* res.json({ success: true, count: data.length, data })
ControllerSuccess(data) ==
  [status |-> 200, success |-> TRUE, count |-> Len(data), data |-> data]

NoResponse == [status |-> 0, success |-> FALSE, count |-> 0, data |-> <<>>]

----------------------------------------------------------------------------
(* State *)

VARIABLES
  stocks,   \* the stocks table: sequence of [code, name]
  tables,   \* tables[type]: sequence of [stockCode, date, val]
  req,      \* req[r]: the progress and the locals of request r
  trial,    \* a direct submission to a save function and what it observed
  probe,    \* one service call followed step by step: what it was given,
            \* what it derived from the period string and what it did
  parse     \* one call of the numeric normalizer or of an extractor: its
            \* input and what it returned

vars == <<stocks, tables, req, trial, probe, parse>>

NoParse ==
  [phase |-> "none", kind |-> "number", text |-> <<>>, tables |-> <<>>,
   num |-> 0, records |-> <<>>]

NoProbe ==
  [phase |-> "none", type |-> "daily", str |-> <<>>, tz |-> 0, error |-> "",
   reads |-> 0, fetches |-> 0, readKey |-> <<>>, saveKey |-> <<>>,
   year |-> 0, unit |-> <<>>, nan |-> FALSE, back |-> <<>>]

NoTrial ==
  [phase |-> "seed", seeds |-> 0, type |-> "daily", date |-> ValidDates["daily"],
   data |-> <<>>, stocksOnce |-> <<>>, tablesOnce |-> <<>>, readOnce |-> <<>>,
   idx |-> 0, field |-> "val", lastName |-> [c \in Codes |-> ""]]

PendingFetch == [st |-> "idle", exc |-> FALSE, rows |-> <<>>, failed |-> FALSE]

IdleRequest ==
  [pc |-> "idle", type |-> "daily", date |-> ValidDates["daily"],
   existingData |-> <<>>, readFailed |-> FALSE,
   fetch |-> [src \in Sources |-> PendingFetch],
   calls |-> [src \in Sources |-> 0],
   settled |-> <<>>,
   allData |-> <<>>, upserts |-> 0, upsertArg |-> <<>>, upsertKey |-> <<>>,
   upsert |-> "none", res |-> NoResponse]

Init ==
  /\ stocks = <<>>
  /\ tables = [type \in EntityTypes |-> <<>>]
  /\ req = [r \in Requests |-> IdleRequest]
  /\ trial = NoTrial
  /\ probe = NoProbe
  /\ parse = NoParse

Key(r) == storageDate(req[r].type, req[r].date)

----------------------------------------------------------------------------
(* Actions *)

\* A controller receives GET /crawler/<type>/<date> with a date that passes
\* its schema and calls the service, which issues the storage read.
Request(r) ==
  /\ req[r].pc = "idle"
  /\ \A q \in Requests : q < r => req[q].pc # "idle"
  /\ \E type \in EntityTypes :
       req' = [req EXCEPT ![r].type = type, ![r].date = ValidDates[type],
                          ![r].pc = "read"]
  /\ UNCHANGED <<stocks, tables>>

\* Promise.all([fetchSii(), fetchOtc()]): both fetchers run up to their
\* first await, so both outbound requests are issued in the same step.
StartCrawl(rq) ==
  [rq EXCEPT !.pc = "crawl",
             !.fetch = [src \in Sources |-> [PendingFetch EXCEPT !.st = "pending"]],
             !.calls = [src \in Sources |-> rq.calls[src] + 1]]

\* get<Entity>ByDate without its catch block
getByDateNoCatch(type, key, dbOk) ==
  IF dbOk THEN [exc |-> FALSE, rows |-> SelectByDate(tables[type], stocks, key)]
  ELSE [exc |-> TRUE, rows |-> <<>>]

\* get<Entity>ByDate: the select inside try, and catch { log; return [] }
getByDate(type, key, dbOk) ==
  IF dbOk THEN [exc |-> FALSE, rows |-> SelectByDate(tables[type], stocks, key)]
  ELSE [exc |-> FALSE, rows |-> <<>>]

\* a cache check that never takes the early return
CacheHitNever(existingData) == FALSE

\* a cache check that answers from an empty read as well
CacheHitAlways(existingData) == TRUE

\* if (existingData.length > 0) return existingData;
CacheHit(existingData) == Len(existingData) > 0

\* The storage read completes (or fails); a non-empty result is returned to
\* the controller, anything else starts the crawl.
CheckCache(r) ==
  /\ req[r].pc = "read"
  /\ \E dbOk \in BOOLEAN :
       LET read == getByDate(req[r].type, readDate(req[r].type, req[r].date), dbOk)
           rq == [req[r] EXCEPT !.existingData = read.rows, !.readFailed = ~dbOk]
       IN  req' = [req EXCEPT ![r] =
                     IF read.exc
                       THEN [rq EXCEPT !.pc = "done",
                                       !.res = ControllerCatch(rq.type, "Error")]
                     ELSE IF CacheHit(read.rows)
                       THEN [rq EXCEPT !.pc = "done",
                                       !.res = ControllerSuccess(read.rows)]
                     ELSE StartCrawl(rq)]
  /\ UNCHANGED <<stocks, tables>>

\* One outbound exchange ends and its fetcher settles.
FetchSettle(r, src) ==
  /\ req[r].pc = "crawl"
  /\ req[r].fetch[src].st = "pending"
  /\ \E resp \in HttpResponses(req[r].type, src) :
       LET out == Fetcher(req[r].type, src, resp)
       IN  req' = [req EXCEPT ![r].fetch[src] =
                     [st |-> "settled", exc |-> out.exc, rows |-> out.rows,
                      failed |-> out.failed],
                   ![r].settled = Append(req[r].settled, src)]
  /\ UNCHANGED <<stocks, tables>>

\* Promise.any / Promise.race in place of Promise.all
AnyResolved(rq) ==
  \E src \in Sources : rq.fetch[src].st = "settled" /\ ~rq.fetch[src].exc

\* Promise.all resolves once every promise has resolved and rejects as soon
\* as one rejects.
AllResolved(rq) ==
  \A src \in Sources : rq.fetch[src].st = "settled" /\ ~rq.fetch[src].exc

SomeRejected(rq) ==
  \E src \in Sources : rq.fetch[src].st = "settled" /\ rq.fetch[src].exc

\* a merge that forgets the secondary market
ConcatSiiOnly(rq) == rq.fetch["sii"].rows

\* a merge in the other order
ConcatOtcFirst(rq) == rq.fetch["otc"].rows \o rq.fetch["sii"].rows

\* const allData = [...siiData, ...otcData]
Concat(rq) == rq.fetch["sii"].rows \o rq.fetch["otc"].rows

\* The continuation of the await on Promise.all: merge, evaluate, and either
\* answer (nothing found) or call the save function, which issues its first
\* statement.
Evaluate(r) ==
  /\ req[r].pc = "crawl"
  /\ AllResolved(req[r]) \/ SomeRejected(req[r])
  /\ LET rq == req[r]
         allData == Concat(rq)
     IN  req' = [req EXCEPT ![r] =
           IF SomeRejected(rq)
             THEN [rq EXCEPT !.pc = "done", !.res = ControllerCatch(rq.type, "Error")]
           ELSE IF Len(allData) = 0
             THEN [rq EXCEPT !.pc = "done", !.allData = allData,
                     !.res = IF OnEmpty(rq.type) = "return"
                             THEN ControllerSuccess(allData)
                             ELSE ControllerCatch(rq.type, OnEmpty(rq.type))]
           ELSE [rq EXCEPT !.pc = "saveStocks", !.allData = allData,
                   !.upserts = rq.upserts + 1, !.upsertArg = allData,
                   !.upsertKey = Key(r), !.upsert = "called"]]
  /\ UNCHANGED <<stocks, tables>>

\* The first statement of the save function: the stocks upsert.  A storage
\* error is logged and rethrown, and the controller answers 500.
UpsertStocks(r) ==
  /\ req[r].pc = "saveStocks"
  /\ \E dbOk \in BOOLEAN :
       IF dbOk
       THEN /\ stocks' = UpsertStocksStmt(stocks, uniqueStocks(req[r].upsertArg))
            /\ req' = [req EXCEPT ![r].pc = "saveRows", ![r].upsert = "stocks"]
       ELSE /\ stocks' = stocks
            /\ req' = [req EXCEPT ![r].pc = "done", ![r].upsert = "failed",
                                  ![r].res = ControllerCatch(req[r].type, "Error")]
  /\ UNCHANGED tables

\* The second statement: the period rows upsert; then the save function
\* returns, the service returns allData and the controller answers.
UpsertRows(r) ==
  /\ req[r].pc = "saveRows"
  /\ \E dbOk \in BOOLEAN :
       LET type == req[r].type
           values == RowValues(type, req[r].upsertArg, req[r].upsertKey)
       IN  IF dbOk /\ ForeignKeyOk(stocks, values)
           THEN /\ tables' = [tables EXCEPT ![type] = UpsertRowsStmt(tables[type], values)]
                /\ req' = [req EXCEPT ![r].pc = "done", ![r].upsert = "done",
                                      ![r].res = ControllerSuccess(req[r].allData)]
           ELSE /\ tables' = tables
                /\ req' = [req EXCEPT ![r].pc = "done", ![r].upsert = "failed",
                                      ![r].res = ControllerCatch(type, "Error")]
  /\ UNCHANGED stocks

\* The response has been sent: the request and its locals are gone.
Close(r) ==
  /\ req[r].pc = "done"
  /\ req' = [req EXCEPT ![r] = [IdleRequest EXCEPT !.pc = "closed"]]
  /\ UNCHANGED <<stocks, tables>>

Next ==
  /\ UNCHANGED <<trial, probe, parse>>
  /\ \E r \in Requests :
       \/ Request(r)
       \/ CheckCache(r)
       \/ \E src \in Sources : FetchSettle(r, src)
       \/ Evaluate(r)
       \/ UpsertStocks(r)
       \/ UpsertRows(r)
       \/ Close(r)

Spec == Init /\ [][Next]_vars

----------------------------------------------------------------------------
(* The save functions on their own: a storage built by earlier upserts, a  *)
(* batch submitted to it, and the same batch submitted again.              *)

\* save<Entity>(data, date), both statements succeeding: the stocks table after
saveStocks(st, data) ==
  IF Len(data) = 0 THEN st ELSE UpsertStocksStmt(st, uniqueStocks(data))

\* save<Entity>(data, date), both statements succeeding: the period table after
saveRows(tbl, type, data, date) ==
  IF Len(data) = 0 THEN tbl
  ELSE UpsertRowsStmt(tbl, RowValues(type, data, storageDate(type, date)))

\* the last record of a batch that carries the code
LastOf(data, code) ==
  data[CHOOSE j \in 1..Len(data) :
         /\ data[j].code = code
         /\ \A k \in (j + 1)..Len(data) : data[k].code # code]

\* the name each code was last submitted with ("" for a code never submitted)
LatestNames(prev, data) ==
  [c \in Codes |->
     IF \E i \in 1..Len(data) : data[i].code = c
     THEN LastOf(data, c).name ELSE prev[c]]

Save(type, data, date) ==
  /\ stocks' = saveStocks(stocks, data)
  /\ tables' = [tables EXCEPT ![type] = saveRows(tables[type], type, data, date)]

\* An earlier request upserted some batch.
Seed ==
  /\ trial.phase = "seed" /\ trial.seeds < MaxSeeds
  /\ \E type \in EntityTypes : \E date \in Dates(type) :
       \E data \in Batches(type) \ {<<>>} :
         /\ Save(type, data, date)
         /\ trial' = [trial EXCEPT !.seeds = trial.seeds + 1,
                        !.lastName = LatestNames(trial.lastName, data)]
  /\ UNCHANGED req

\* A batch is submitted.
Submit ==
  /\ trial.phase = "seed"
  /\ \E type \in EntityTypes : \E date \in Dates(type) : \E data \in Batches(type) :
       /\ Save(type, data, date)
       /\ trial' = [trial EXCEPT !.phase = "once", !.type = type, !.date = date,
                      !.data = data, !.stocksOnce = stocks', !.tablesOnce = tables',
                      !.lastName = LatestNames(trial.lastName, data),
                      !.readOnce = SelectByDate(tables'[type], stocks',
                                                storageDate(type, date))]
  /\ UNCHANGED req

\* The same batch is submitted again with the same period.
Resubmit ==
  /\ trial.phase = "once"
  /\ Save(trial.type, trial.data, trial.date)
  /\ trial' = [trial EXCEPT !.phase = "twice"]
  /\ UNCHANGED req

\* the numeric fields of a record of an entity type
Fields(type) == IF type \in {"eps", "capital"} THEN {"val"} ELSE {"val", "aux"}

\* values a field can be changed to, in thousandths
ChangedVals(f) == IF f = "val" THEN {3000, 1005} ELSE {6000}

\* the row stored for (code, key)
StoredRow(tbl, code, key) ==
  CHOOSE row \in {tbl[i] : i \in 1..Len(tbl)} : row.stockCode = code /\ row.date = key

\* the places where a batch differs from the rows stored for its period
Differences(tbl, type, data, key) ==
  {<<i, f>> \in (1..Len(data)) \X Fields(type) :
     \/ ~HasKey(tbl, data[i].code, key)
     \/ StoredRow(tbl, data[i].code, key)[f] # data[i][f]}

\* The submitted batch is submitted again with one numeric field of one
\* record changed, every other field being the stored one.
ResubmitChanged ==
  /\ trial.phase = "once"
  /\ \E i \in 1..Len(trial.data) : \E f \in Fields(trial.type) :
       \E v \in ChangedVals(f) :
         LET data == [trial.data EXCEPT ![i][f] = v]
             key == storageDate(trial.type, trial.date)
         IN  /\ Differences(tables[trial.type], trial.type, data, key) = {<<i, f>>}
             /\ Save(trial.type, data, trial.date)
             /\ trial' = [trial EXCEPT !.phase = "changed", !.data = data,
                            !.idx = i, !.field = f]
  /\ UNCHANGED req

NextUpsert ==
  /\ UNCHANGED <<probe, parse>>
  /\ (Seed \/ Submit \/ Resubmit \/ ResubmitChanged)

SpecUpsert == Init /\ [][NextUpsert]_vars

----------------------------------------------------------------------------
(* One service call on an arbitrary period string, followed from its entry *)
(* to the read of what it stored.                                          *)

Years ==
  {<<"2", "0", "2", "4">>, <<"1", "9", "1", "2">>, <<"1", "9", "9", "9">>,
   <<"9", "9", "9", "9">>}

QuarterStrings ==
  {y \o <<"-", "Q", q>> : y \in Years, q \in {"0", "1", "2", "3", "4", "5"}}
    \cup {<<"2", "0", "2", "4", "Q", "1">>, <<"2", "4", "-", "Q", "1">>,
          <<"2", "0", "2", "4", "-", "q", "1">>}

MonthStrings ==
  {y \o <<"-">> \o mm : y \in Years,
     mm \in {<<"0", "0">>, <<"0", "1">>, <<"0", "9">>, <<"1", "0">>,
             <<"1", "2">>, <<"1", "3">>}}

DayStrings ==
  {<<"2", "0", "2", "4", "-", "0", "1", "-", "0", "2">>,
   <<"2", "0", "2", "4", "-", "1", "3", "-", "0", "1">>,
   <<"2", "0", "2", "4", "-", "0", "2", "-", "3", "0">>}

\* the period strings a service of the entity type is called with
PeriodStrings(type) ==
  CASE type = "daily" -> DayStrings
    [] type = "monthly" -> MonthStrings
    [] OTHER -> QuarterStrings \cup {<<"2", "0", "2", "4", "-", "0", "1">>}

\* offset of the server's local time from UTC, in hours
TzOffsets == {-5, 0, 8}

\* new Date(dateStr + "-01") of an ISO date: valid when the month is 01..12
\* (the day is 01), else an Invalid Date
IsoMonthValid(s) ==
  /\ Len(s) = 7
  /\ \A i \in {1, 2, 3, 4, 6, 7} : IsDigit(s[i])
  /\ s[5] = "-"
  /\ parseInt(SubSeq(s, 6, 7)) \in 1..12

\* dateObj.getFullYear() and dateObj.getMonth() + 1 of the date-only ISO
\* string, which is midnight UTC, read in the server's local time
DateFields(s, tz) ==
  LET y == parseInt(SubSeq(s, 1, 4))
      m == parseInt(SubSeq(s, 6, 7))
  IN  IF tz >= 0 THEN [y |-> y, m |-> m]
      ELSE IF m = 1 THEN [y |-> y - 1, m |-> 12]
      ELSE [y |-> y, m |-> m - 1]

\* the check at the entry of a service: the quarterly services throw when
\* the string does not match /^(\d{4})-Q([1-4])$/; the monthly and the
\* daily service check nothing
EntryThrows(type, str) ==
  IF type \in {"eps", "capital", "cashflow"} THEN ~QuarterMatch(str) ELSE FALSE

\* the year handed to the fetchers
SentYear(type, str, tz) ==
  CASE type = "daily" -> parseInt(SubSeq(str, 1, 4))
    [] type = "monthly" -> DateFields(str, tz).y - 1911
    [] OTHER -> parseInt(SubSeq(str, 1, 4)) - 1911

\* the quarter, month or month-and-day put in the outbound request
\* (season: `0${season}`; month: `${month}`; daily: `${month}${day}`)
SentUnit(type, str, tz) ==
  CASE type = "daily" -> SubSeq(str, 6, 7) \o SubSeq(str, 9, 10)
    [] type = "monthly" -> NumToString(DateFields(str, tz).m)
    [] OTHER -> <<"0">> \o NumToString(parseInt(<<str[7]>>))

InitPeriod ==
  /\ stocks = <<>>
  /\ tables = [type \in EntityTypes |-> <<>>]
  /\ req = [r \in Requests |-> IdleRequest]
  /\ trial = NoTrial
  /\ parse = NoParse
  /\ \E type \in EntityTypes : \E str \in PeriodStrings(type) : \E tz \in TzOffsets :
       probe = [NoProbe EXCEPT !.phase = "called", !.type = type, !.str = str,
                               !.tz = tz]

\* The service is entered: the quarterly services match the string first.
Enter ==
  /\ probe.phase = "called"
  /\ probe' = IF EntryThrows(probe.type, probe.str)
               THEN [probe EXCEPT !.phase = "thrown", !.error = "Invalid date format"]
               ELSE [probe EXCEPT !.phase = "entered"]
  /\ UNCHANGED <<stocks, tables, req, trial>>

\* The storage is read under the read key; it holds nothing for the period.
ReadStorage ==
  /\ probe.phase = "entered"
  /\ probe' = [probe EXCEPT !.phase = "missed", !.reads = probe.reads + 1,
                            !.readKey = readDate(probe.type, probe.str)]
  /\ UNCHANGED <<stocks, tables, req, trial>>

\* Both fetchers are called with the year and the unit derived from the string.
Crawl ==
  /\ probe.phase = "missed"
  /\ probe' =
       IF probe.type = "monthly" /\ ~IsoMonthValid(probe.str)
       THEN [probe EXCEPT !.phase = "crawled", !.fetches = 2, !.nan = TRUE]
       ELSE [probe EXCEPT !.phase = "crawled", !.fetches = 2,
                          !.year = SentYear(probe.type, probe.str, probe.tz),
                          !.unit = SentUnit(probe.type, probe.str, probe.tz)]
  /\ UNCHANGED <<stocks, tables, req, trial>>

\* The crawled records are saved under the save key.
Store ==
  /\ probe.phase = "crawled"
  /\ \E data \in Batches(probe.type) \ {<<>>} :
       /\ Save(probe.type, data, probe.str)
       /\ probe' = [probe EXCEPT !.phase = "stored",
                                 !.saveKey = storageDate(probe.type, probe.str)]
  /\ UNCHANGED <<req, trial>>

\* The same period is requested again: the storage is read under the read key.
ReadBack ==
  /\ probe.phase = "stored"
  /\ probe' = [probe EXCEPT !.phase = "readback", !.reads = probe.reads + 1,
                 !.back = SelectByDate(tables[probe.type], stocks,
                                       readDate(probe.type, probe.str))]
  /\ UNCHANGED <<stocks, tables, req, trial>>

NextPeriod ==
  /\ UNCHANGED parse
  /\ (Enter \/ ReadStorage \/ Crawl \/ Store \/ ReadBack)

SpecPeriod == InitPeriod /\ [][NextPeriod]_vars

----------------------------------------------------------------------------
(* One call of the numeric normalizer or of an extractor on an arbitrary   *)
(* input.                                                                  *)

GoodCode == <<"2", "3", "3", "0">>

GoodName == <<"T", "S", "M", "C">>

CodeCells == {GoodCode, <<" ">> \o GoodCode \o <<" ">>, <<>>, <<" ">>}

NameCells == {GoodName, <<" ">>}

NumericCells ==
  { <<"1", "2">>, <<"1", ",", "2", "3", "4">>, <<"1", ".", "5">>, <<>>,
    <<"-", "-">>, <<"x">>, <<"(", "1", "2", ")">>, <<"-", "3">> }

\* The cells of a row in the order of the required columns: the code, the
\* name, one numeric cell under test and a plain number in the others
Logical(kind, code, name, num) ==
  [k \in 1..Len(TARGET_COLUMNS(kind)) |->
     CASE k = 1 -> code [] k = 2 -> name [] k = 3 -> num [] OTHER -> <<"5">>]

SwapCols(s, i, j) ==
  [p \in 1..Len(s) |-> IF p = i THEN s[j] ELSE IF p = j THEN s[i] ELSE s[p]]

\* The headers a source table may come with: the required names in the
\* source's order or another, one of them missing, a column in front,
\* white space around a name
HeaderVariants(kind) ==
  LET H == TARGET_COLUMNS(kind)
      n == Len(H)
  IN  {H, SwapCols(H, 1, 2), SwapCols(H, 2, 3), SwapCols(H, 1, n),
       [H EXCEPT ![1] = Other], [H EXCEPT ![3] = Other],
       <<Other>> \o H,
       [H EXCEPT ![1] = <<" ">> \o H[1] \o <<" ">>]}

\* The cells of a row laid out under a header
Arrange(kind, headers, logical) ==
  [p \in 1..Len(headers) |->
     IF \E k \in 1..Len(logical) : trim(headers[p]) = TARGET_COLUMNS(kind)[k]
     THEN logical[CHOOSE k \in 1..Len(logical) : trim(headers[p]) = TARGET_COLUMNS(kind)[k]]
     ELSE <<"9">>]

GoodRow(kind) == Logical(kind, GoodCode, GoodName, <<"7">>)

GoodTable(kind) ==
  [headers |-> TARGET_COLUMNS(kind), rows |-> <<GoodRow(kind), GoodRow(kind)>>]

\* The tables under test: one row of chosen cells, whole or cut short by
\* one cell, alone or followed by a good row
RowsUnderTest(kind, h) ==
  UNION { { Arrange(kind, h, Logical(kind, c, nm, v)),
            AllButLast(Arrange(kind, h, Logical(kind, c, nm, v))) } :
          c \in CodeCells, nm \in NameCells, v \in NumericCells }

TablesWith(kind, h) ==
  UNION { { [headers |-> h, rows |-> <<row>>],
            [headers |-> h, rows |-> <<row, Arrange(kind, h, GoodRow(kind))>>] } :
          row \in RowsUnderTest(kind, h) }

TablesUnderTest(kind) == UNION { TablesWith(kind, h) : h \in HeaderVariants(kind) }

\* The responses: the table under test alone, or next to a good table
Responses(kind) ==
  IF kind \in {"daily", "legacy"}
  THEN { <<t>> : t \in TablesUnderTest(kind) }
  ELSE UNION { { <<t>>, <<t, GoodTable(kind)>>, <<GoodTable(kind), t>> } :
               t \in TablesUnderTest(kind) }

InitExtract ==
  /\ stocks = <<>>
  /\ tables = [type \in EntityTypes |-> <<>>]
  /\ req = [r \in Requests |-> IdleRequest]
  /\ trial = NoTrial
  /\ probe = NoProbe
  /\ \/ \E text \in CellTexts :
          parse = [NoParse EXCEPT !.phase = "given", !.kind = "number", !.text = text]
     \/ \E kind \in ExtractorKinds : \E tbls \in Responses(kind) :
          parse = [NoParse EXCEPT !.phase = "given", !.kind = kind, !.tables = tbls]

\* parseNumber is applied to the text of a cell.
Normalize ==
  /\ parse.phase = "given" /\ parse.kind = "number"
  /\ parse' = [parse EXCEPT !.phase = "done", !.num = parseNumber(parse.text)]
  /\ UNCHANGED <<stocks, tables, req, trial, probe>>

\* The extractor of a kind is applied to a response.
Extract(kind) ==
  /\ parse.phase = "given" /\ parse.kind = kind
  /\ parse' = [parse EXCEPT !.phase = "done",
                            !.records = parseData(kind, parse.tables)]
  /\ UNCHANGED <<stocks, tables, req, trial, probe>>

NextExtract ==
  \/ Normalize
  \/ Extract("daily")
  \/ Extract("legacy")
  \/ Extract("monthly")
  \/ Extract("eps")
  \/ Extract("capital")
  \/ Extract("cashflow")

SpecExtract == InitExtract /\ [][NextExtract]_vars

----------------------------------------------------------------------------
(* Properties of the orchestrators *)

Crawled(r) == \A src \in Sources : req[r].calls[src] > 0

Settled(r, src) == req[r].fetch[src].st = "settled"

\* the records the two fetchers of request r resolved to, primary first
Merged(r) == req[r].fetch["sii"].rows \o req[r].fetch["otc"].rows

AfterCrawl(r) == req[r].pc \in {"saveStocks", "saveRows", "done"} /\ Crawled(r)

\* C1: when the storage read of a request returns a non-empty list, the
\* request answers success with exactly that list, no source fetcher is
\* invoked and no upsert is performed, for every entity type.
C1_CacheHitServedFromStorage ==
  \A r \in Requests :
    Len(req[r].existingData) > 0 =>
      /\ req[r].pc = "done"
      /\ req[r].res = ControllerSuccess(req[r].existingData)
      /\ \A src \in Sources : req[r].calls[src] = 0 /\ req[r].fetch[src].st = "idle"
      /\ req[r].upserts = 0 /\ req[r].upsert = "none"

C1_Witness ==
  \E r \in Requests :
    /\ req[r].pc = "done" /\ req[r].type = "cashflow"
    /\ Len(req[r].existingData) > 0
    /\ req[r].res.status = 200 /\ req[r].res.count > 0

\* C2: for EPS, capital, cash flow and daily price, a cache miss followed by
\* an empty merged crawl result ends in a not-found answer (404), not in a
\* success with zero records and not in a generic internal error.
C2_EmptyCrawlIsNotFound ==
  \A r \in Requests :
    ( /\ req[r].pc = "done"
      /\ req[r].type \in {"eps", "capital", "cashflow", "daily"}
      /\ Crawled(r) /\ \A src \in Sources : Settled(r, src)
      /\ Merged(r) = <<>> )
    => req[r].res = NotFound

OneFailed(r, bad, good) ==
  /\ bad # good
  /\ Settled(r, bad) /\ req[r].fetch[bad].failed
  /\ Settled(r, good) /\ ~req[r].fetch[good].failed
  /\ Len(req[r].fetch[good].rows) > 0

\* C4: on a cache miss where one fetcher failed and the other resolved to a
\* non-empty list R, whichever of the two failed: the upsert is called with
\* exactly R, no not-found is raised, and the answer is success with exactly R
\* (the only other answer being the 500 of an upsert that itself failed with
\* a storage error).
C4_OneSourceFailureIsIsolated ==
  \A r \in Requests : \A bad, good \in Sources :
    (AfterCrawl(r) /\ OneFailed(r, bad, good)) =>
      /\ req[r].upserts = 1
      /\ req[r].upsertArg = req[r].fetch[good].rows
      /\ req[r].pc = "done" =>
           \/ req[r].res = ControllerSuccess(req[r].fetch[good].rows)
           \/ req[r].upsert = "failed" /\ req[r].res = InternalError

C4_Witness ==
  /\ \E r \in Requests :
       /\ req[r].pc = "done" /\ OneFailed(r, "sii", "otc")
       /\ req[r].res = ControllerSuccess(req[r].fetch["otc"].rows)
  /\ \E r \in Requests :
       /\ req[r].pc = "done" /\ OneFailed(r, "otc", "sii")
       /\ req[r].res = ControllerSuccess(req[r].fetch["sii"].rows)

\* the exchanges the fetcher of (type, src) must answer with the empty list
FailingExchange(type, src, resp) ==
  \/ resp.net = "error"
  \/ resp.status # 200
  \/ resp.body = "absent"
  \/ resp.parse = "throw"
  \/ type = "daily" /\ src = "sii" /\ (resp.stat # "OK" \/ ~resp.isArray \/ resp.nTables < 9)
  \/ type = "daily" /\ src = "otc"
       /\ (resp.stat \notin {"ok", "OK"} \/ ~resp.isArray \/ resp.nTables < 1)

\* C5: every source fetcher settles with a record list and never rejects;
\* whatever exchange an outstanding fetch meets, a transport error, a non-200
\* status, a non-success stat field, a missing or too short tables array or
\* an exception while parsing makes it resolve to the empty list.
C5_FetchersNeverThrow ==
  \A r \in Requests : \A src \in Sources :
    /\ Settled(r, src) =>
         /\ ~req[r].fetch[src].exc
         /\ req[r].fetch[src].failed => req[r].fetch[src].rows = <<>>
    /\ (req[r].pc = "crawl" /\ req[r].fetch[src].st = "pending") =>
         \A resp \in HttpResponses(req[r].type, src) :
           LET out == Fetcher(req[r].type, src, resp)
           IN  /\ ~out.exc
               /\ FailingExchange(req[r].type, src, resp) =>
                    out.rows = <<>> /\ out.failed

C5_Witness ==
  \E r \in Requests :
    /\ req[r].type = "daily"
    /\ \A src \in Sources :
         Settled(r, src) /\ req[r].fetch[src].failed /\ req[r].fetch[src].rows = <<>>

\* C6: while a request crawls, both fetches have been started; and the
\* request reaches the evaluation, the upsert or the answer only when both
\* fetches have settled.
C6_BothFetchesSettleFirst ==
  \A r \in Requests :
    /\ req[r].pc = "crawl" =>
         \A src \in Sources : req[r].calls[src] = 1 /\ req[r].fetch[src].st # "idle"
    /\ AfterCrawl(r) => \A src \in Sources : Settled(r, src)

\* one fetch has produced records while the other is still outstanding
C6_Witness ==
  \E r \in Requests : \E first, other \in Sources :
    /\ req[r].pc = "crawl"
    /\ Settled(r, first) /\ Len(req[r].fetch[first].rows) > 0
    /\ req[r].fetch[other].st = "pending"

\* C7: on a cache miss with a non-empty merged result the upsert is called
\* exactly once, with the merged list (primary then secondary) and the
\* request's period key; a success answer is given only after the upsert has
\* completed, and carries that same merged list.
C7_UpsertOnceThenReturn ==
  \A r \in Requests :
    (AfterCrawl(r) /\ (\A src \in Sources : Settled(r, src)) /\ Len(Merged(r)) > 0) =>
      /\ req[r].upserts = 1
      /\ req[r].upsertArg = Merged(r)
      /\ req[r].upsertKey = storageDate(req[r].type, req[r].date)
      /\ req[r].res.success =>
           /\ req[r].upsert = "done"
           /\ req[r].res.data = Merged(r) /\ req[r].res.count = Len(Merged(r))
           /\ \A i \in 1..Len(Merged(r)) :
                HasKey(tables[req[r].type], Merged(r)[i].code, req[r].upsertKey)
      /\ req[r].pc = "done" /\ req[r].upsert = "done" => req[r].res.success

C7_Witness ==
  \E r \in Requests :
    /\ req[r].pc = "done" /\ req[r].res.success
    /\ Len(req[r].fetch["sii"].rows) > 0 /\ Len(req[r].fetch["otc"].rows) > 0
    /\ req[r].upsert = "done"

\* C8: when the upsert fails with a storage error the request is answered
\* with the internal error (500): not with not-found, not with success and
\* not with the crawled records; the upsert and the crawl are not retried.
C8_UpsertFailureIsInternalError ==
  \A r \in Requests :
    req[r].upsert = "failed" =>
      /\ req[r].pc = "done"
      /\ req[r].res.status = 500 /\ ~req[r].res.success
      /\ req[r].res.data = <<>>
      /\ req[r].upserts = 1
      /\ \A src \in Sources : req[r].calls[src] = 1

C8_Witness ==
  \E r \in Requests :
    /\ req[r].upsert = "failed" /\ req[r].type = "cashflow"
    /\ req[r].res.status = 500
    /\ stocks # <<>> /\ tables["cashflow"] = <<>>

\* C9: a storage failure during the cache read is not raised: the read
\* yields the empty list and the request goes on as on a cache miss, crawling
\* both sources and upserting what they return, for every entity type.
C9_ReadFailureIsCacheMiss ==
  \A r \in Requests :
    req[r].readFailed =>
      /\ req[r].existingData = <<>>
      /\ req[r].pc \in {"crawl", "saveStocks", "saveRows", "done"}
      /\ Crawled(r)
      /\ (AfterCrawl(r) /\ Len(Merged(r)) > 0) =>
           req[r].upserts = 1 /\ req[r].upsertArg = Merged(r)
      /\ (req[r].pc = "done" /\ req[r].upsert = "done") =>
           req[r].res = ControllerSuccess(Merged(r))

\* the read failed although the period was stored, and the crawl was upserted
C9_Witness ==
  \E r \in Requests :
    /\ req[r].readFailed /\ req[r].pc = "done" /\ req[r].upsert = "done"
    /\ \E q \in Requests : q # r /\ req[q].pc = "closed"
    /\ req[r].res.status = 200

----------------------------------------------------------------------------
(* Properties of the save functions *)

\* C10: submitting a batch a second time with the same period leaves the
\* stocks table and every period table as the first submission left them,
\* and the read of that period returns the same records after both.
C10_UpsertIdempotent ==
  trial.phase = "twice" =>
    /\ stocks = trial.stocksOnce
    /\ tables = trial.tablesOnce
    /\ SelectByDate(tables[trial.type], stocks, storageDate(trial.type, trial.date))
         = trial.readOnce

\* a batch naming one security twice was submitted twice to a storage that
\* already held a row of that security and period
C10_Witness ==
  /\ trial.phase = "twice" /\ trial.seeds = 1
  /\ Len(trial.data) = 2 /\ trial.data[1].code = trial.data[2].code
  /\ trial.data[1].val # trial.data[2].val
  /\ Len(trial.readOnce) = 1
  /\ Len(tables[trial.type]) > 1

\* C11: re-submitting a batch that differs from the stored rows in one
\* numeric field of one record changes that field of the row of that
\* (security, period) and nothing else: the row's other field, its identity,
\* every other row of the table, every other table and the stocks table
\* stay as they were.
C11_OnlyThatFieldChanges ==
  trial.phase = "changed" =>
    LET type == trial.type
        key == storageDate(type, trial.date)
        code == trial.data[trial.idx].code
        f == trial.field
        old == trial.tablesOnce[type]
        new == tables[type]
        written == RowValues(type, <<LastOf(trial.data, code)>>, key)[1]
    IN  /\ stocks = trial.stocksOnce
        /\ \A t \in EntityTypes \ {type} : tables[t] = trial.tablesOnce[t]
        /\ Len(new) = Len(old)
        /\ \A j \in 1..Len(old) :
             IF old[j].stockCode = code /\ old[j].date = key
             THEN /\ new[j].stockCode = code /\ new[j].date = key
                  /\ \A g \in {"val", "aux"} \ {f} : new[j][g] = old[j][g]
                  /\ new[j][f] = written[f]
             ELSE new[j] = old[j]

\* the second numeric field of a row was overwritten while a row of the same
\* security under another period stayed in the table
C11_Witness ==
  /\ trial.phase = "changed" /\ trial.field = "aux" /\ trial.type = "cashflow"
  /\ Len(tables["cashflow"]) = 2
  /\ tables["cashflow"][1].stockCode = tables["cashflow"][2].stockCode
  /\ tables["cashflow"] # trial.tablesOnce["cashflow"]

----------------------------------------------------------------------------
(* Properties of the storage under concurrent requests *)

\* C12: in every reachable storage state every period table holds at most
\* one row per (security code, period key) and the stocks table holds at
\* most one row per code, also after batches that carry a code twice.
C12_UniqueRows ==
  /\ \A i, j \in 1..Len(stocks) : stocks[i].code = stocks[j].code => i = j
  /\ \A type \in EntityTypes : \A i, j \in 1..Len(tables[type]) :
       (/\ tables[type][i].stockCode = tables[type][j].stockCode
        /\ tables[type][i].date = tables[type][j].date) => i = j

\* two requests each upserted a batch in which both sources report the same
\* security, and the table holds one row for it
C12_Witness ==
  /\ \A r \in Requests :
       /\ req[r].type = "eps" /\ req[r].upsert = "done"
       /\ Len(req[r].upsertArg) = 2
       /\ req[r].upsertArg[1].code = req[r].upsertArg[2].code
  /\ Len(tables["eps"]) = 1 /\ Len(stocks) = 1

\* C13: every period row references a code that is in the stocks table, in
\* every reachable state; and when a request is about to write its period
\* rows (between its two statements) every security of its batch is already
\* in the stocks table, whatever the other requests have done.
C13_SecuritiesFirst ==
  /\ \A type \in EntityTypes : \A i \in 1..Len(tables[type]) :
       HasCode(stocks, tables[type][i].stockCode)
  /\ \A r \in Requests :
       req[r].pc = "saveRows" =>
         /\ req[r].upsert = "stocks"
         /\ \A i \in 1..Len(req[r].upsertArg) :
              HasCode(stocks, req[r].upsertArg[i].code)

\* the second statement of the only request so far failed: its securities
\* are stored and no period row is
C13_Witness ==
  \E r \in Requests :
    /\ req[r].upsert = "failed" /\ req[r].type = "daily"
    /\ \A o \in Requests \ {r} : req[o].pc = "idle"
    /\ Len(stocks) = 1
    /\ \A type \in EntityTypes : tables[type] = <<>>

----------------------------------------------------------------------------
(* Properties of security names *)

\* C14: a code is in the stocks table exactly when some submitted batch
\* carried it; its stored name is the name of the last occurrence of the code
\* in the latest batch that carried it; and the read of any period of any
\* entity type returns that name for the code.
C14_NameLastWriteWins ==
  /\ \A c \in Codes : HasCode(stocks, c) <=> trial.lastName[c] # ""
  /\ \A i \in 1..Len(stocks) : stocks[i].name = trial.lastName[stocks[i].code]
  /\ \A type \in EntityTypes : \A date \in Dates(type) :
       LET read == SelectByDate(tables[type], stocks, storageDate(type, date))
       IN  \A i \in 1..Len(read) : read[i].name = trial.lastName[read[i].code]

\* a batch naming one security twice with two names was submitted after a
\* batch of another entity type: the read of the earlier batch's period
\* returns the name of the last occurrence
C14_Witness ==
  /\ trial.phase = "once" /\ trial.seeds = 1 /\ trial.type = "eps"
  /\ Len(trial.data) = 2
  /\ trial.data[1].code = trial.data[2].code
  /\ trial.data[1].name = "Taiwan Semi" /\ trial.data[2].name = "TSMC"
  /\ LET read == SelectByDate(tables["monthly"], stocks,
                              storageDate("monthly", OtherDates["monthly"]))
     IN  Len(read) = 1 /\ read[1].name = "TSMC"

----------------------------------------------------------------------------
(* Properties of concurrent requests *)

\* the rows statement of request r is applied in this step
RowsWritten(r) == req[r].pc = "saveRows" /\ req'[r].upsert = "done"

\* C15: requests for the same uncached period may both crawl and both
\* upsert.  In every interleaving, a request about to write its period rows
\* meets no foreign key conflict; when its rows statement is applied, every
\* key of its batch holds the values of that request (so the request whose
\* rows were written last decides the stored values), every other row is
\* kept, no key is stored twice, and nothing but a rows statement changes a
\* period table.
C15_ConcurrentUpsertsLastWriterWins ==
  [][/\ \A r \in Requests :
          req[r].pc = "saveRows" =>
            ForeignKeyOk(stocks, RowValues(req[r].type, req[r].upsertArg,
                                           req[r].upsertKey))
     /\ \A r \in Requests :
          RowsWritten(r) =>
            LET type == req[r].type
                key == req[r].upsertKey
                data == req[r].upsertArg
                old == tables[type]
                new == tables'[type]
            IN  /\ \A i \in 1..Len(data) :
                     /\ HasKey(new, data[i].code, key)
                     /\ StoredRow(new, data[i].code, key)
                          = RowValues(type, <<LastOf(data, data[i].code)>>, key)[1]
                /\ \A j \in 1..Len(old) :
                     (\A i \in 1..Len(data) :
                        ~(old[j].stockCode = data[i].code /\ old[j].date = key))
                       => new[j] = old[j]
                /\ \A i, j \in 1..Len(new) :
                     (new[i].stockCode = new[j].stockCode /\ new[i].date = new[j].date)
                       => i = j
     /\ tables' # tables => \E r \in Requests : RowsWritten(r)
    ]_vars

\* two requests for the same uncached period both crawled and both upserted
\* different values for the same key; the stored value is that of request 1
C15_Witness ==
  /\ \A r \in Requests :
       /\ req[r].type = "eps" /\ req[r].pc = "done" /\ req[r].upsert = "done"
       /\ req[r].existingData = <<>> /\ req[r].calls["sii"] = 1
       /\ Len(req[r].upsertArg) = 1
  /\ req[1].upsertArg[1].val = 1000 /\ req[2].upsertArg[1].val = 1005
  /\ Len(tables["eps"]) = 1 /\ tables["eps"][1].val = 1000

\* request r took the failure path of one of its fetchers
HadFailedFetch(r) == \E src \in Sources : req[r].fetch[src].failed

\* C16: a failed source fetch empties that source's contribution for that
\* request only: a request that reads the storage of the same period after
\* a request with a failed fetch has been answered crawls again (both
\* fetchers are called), whatever the other source returned to the failing
\* request.
C16_FailedFetchIsRetriedByNextRequest ==
  [][\A r1, r2 \in Requests :
       (/\ r1 # r2
        /\ req[r1].pc = "done" /\ HadFailedFetch(r1)
        /\ req[r2].type = req[r1].type /\ req[r2].date = req[r1].date
        /\ req[r2].pc = "read" /\ req'[r2].pc # "read")
       => /\ req'[r2].pc = "crawl"
          /\ \A src \in Sources : req'[r2].calls[src] = 1
    ]_vars

----------------------------------------------------------------------------
(* Properties of the period translation *)

Quarterly == {"eps", "capital", "cashflow"}

\* days of a month of the Gregorian calendar
DaysInMonth(y, m) ==
  IF m = 2
  THEN (IF y % 4 = 0 /\ (y % 100 # 0 \/ y % 400 = 0) THEN 29 ELSE 28)
  ELSE IF m \in {4, 6, 9, 11} THEN 30 ELSE 31

\* the period string is a valid one for the entity type
ValidPeriod(type, str) ==
  CASE type \in Quarterly -> QuarterMatch(str)
    [] type = "monthly" -> IsoMonthValid(str)
    [] OTHER ->
         /\ Len(str) = 10 /\ IsoMonthValid(SubSeq(str, 1, 7)) /\ str[8] = "-"
         /\ IsDigit(str[9]) /\ IsDigit(str[10])
         /\ parseInt(SubSeq(str, 9, 10)) \in
              1..DaysInMonth(parseInt(SubSeq(str, 1, 4)), parseInt(SubSeq(str, 6, 7)))

\* first month of a quarter, as the claim tabulates it
FirstMonthOf(q) ==
  CASE q = "1" -> <<"0", "1">> [] q = "2" -> <<"0", "4">>
    [] q = "3" -> <<"0", "7">> [] OTHER -> <<"1", "0">>

\* C17: for a valid quarter string Y-Qq the key read and the key written are
\* Y-MM-01 with MM = 01, 04, 07, 10 for q = 1, 2, 3, 4; for a valid month
\* string YYYY-MM they are YYYY-MM-01; the read and the save of an entity type
\* use the same key, so the read of a period returns the rows saved for it.
C17_FirstOfPeriodKey ==
  (ValidPeriod(probe.type, probe.str) /\ probe.type # "daily") =>
    LET expected ==
          IF probe.type = "monthly" THEN probe.str \o <<"-", "0", "1">>
          ELSE SubSeq(probe.str, 1, 4) \o <<"-">> \o FirstMonthOf(probe.str[7])
               \o <<"-", "0", "1">>
    IN  /\ probe.phase \in {"missed", "crawled", "stored", "readback"}
          => probe.readKey = expected
        /\ probe.phase \in {"stored", "readback"} =>
             /\ probe.saveKey = expected
             /\ \A i \in 1..Len(tables[probe.type]) :
                  tables[probe.type][i].date = expected
        /\ probe.phase = "readback" =>
             /\ Len(probe.back) = Len(tables[probe.type])
             /\ Len(probe.back) > 0

\* the rows saved for 2024-Q4 were read back under 2024-10-01
C17_Witness ==
  /\ probe.phase = "readback" /\ probe.type = "cashflow"
  /\ probe.str = <<"2", "0", "2", "4", "-", "Q", "4">>
  /\ probe.readKey = <<"2", "0", "2", "4", "-", "1", "0", "-", "0", "1">>
  /\ Len(probe.back) = 1

\* C18: the key of a valid quarter string Y-Qq gives back the quarter: the
\* year of the key is Y and (month of the key - 1) / 3 + 1 is q; and no
\* other valid quarter string has the same key.
C18_QuarterKeyRoundTrips ==
  (probe.type \in Quarterly /\ QuarterMatch(probe.str)
     /\ probe.phase \in {"stored", "readback"}) =>
    LET key == probe.saveKey
    IN  /\ Len(key) = 10
        /\ parseInt(SubSeq(key, 1, 4)) = parseInt(SubSeq(probe.str, 1, 4))
        /\ (parseInt(SubSeq(key, 6, 7)) - 1) \div 3 + 1 = parseInt(<<probe.str[7]>>)
        /\ \A other \in QuarterStrings :
             (QuarterMatch(other) /\ quarterToSqlDate(other) = key)
               => other = probe.str

\* 1999-Q3 was stored under 1999-07-01
C18_Witness ==
  /\ probe.phase = "stored" /\ probe.type = "eps"
  /\ probe.str = <<"1", "9", "9", "9", "-", "Q", "3">>
  /\ probe.saveKey = <<"1", "9", "9", "9", "-", "0", "7", "-", "0", "1">>

\* C19: for a valid quarter string YYYY-Qn and a valid month string YYYY-MM
\* the year handed to the fetchers is YYYY - 1911 and the unit is "0n", or
\* the month MM, whatever else is the case on the server.
C19_RocYearFromStringOnly ==
  (probe.type # "daily" /\ ValidPeriod(probe.type, probe.str)
     /\ probe.phase \in {"crawled", "stored", "readback"}) =>
    /\ ~probe.nan
    /\ probe.year = parseInt(SubSeq(probe.str, 1, 4)) - 1911
    /\ IF probe.type = "monthly"
       THEN parseInt(probe.unit) = parseInt(SubSeq(probe.str, 6, 7))
       ELSE probe.unit = <<"0", probe.str[7]>>

\* C20: a period string that is malformed for the entity type makes the
\* service fail at its entry: no storage read and no fetch is made for it.
C20_MalformedPeriodFailsFirst ==
  ~ValidPeriod(probe.type, probe.str) =>
    /\ probe.phase \in {"called", "thrown"}
    /\ probe.reads = 0 /\ probe.fetches = 0

----------------------------------------------------------------------------
(* Properties of the numeric normalizer *)

FirstOf(s, c) == CHOOSE i \in 1..Len(s) : s[i] = c /\ \A j \in 1..(i - 1) : s[j] # c

LastIndexOf(s, c) == CHOOSE i \in 1..Len(s) : s[i] = c /\ \A j \in (i + 1)..Len(s) : s[j] # c

Enclosed(s) == SubSeq(s, FirstOf(s, "(") + 1, LastIndexOf(s, ")") - 1)

AllDigits(s) == s # <<>> /\ \A i \in 1..Len(s) : IsDigit(s[i])

\* The integer a stripped text starts with, 0 when it starts with none
LeadingInteger(c) ==
  LET neg  == c # <<>> /\ c[1] = "-"
      body == IF neg THEN Tail(c) ELSE c
      k    == IF \E i \in 1..Len(body) : ~IsDigit(body[i])
              THEN (CHOOSE i \in 1..Len(body) :
                      ~IsDigit(body[i]) /\ \A j \in 1..(i - 1) : IsDigit(body[j])) - 1
              ELSE Len(body)
  IN  IF k = 0 THEN 0
      ELSE IF neg THEN -parseInt(SubSeq(body, 1, k))
      ELSE parseInt(SubSeq(body, 1, k))

----------------------------------------------------------------------------
(* Properties of the extractors *)

Extracted == parse.phase = "done" /\ parse.kind \in ExtractorKinds

\* The rows of a response that the extractor looks at
RowsRead(kind, tbls) ==
  IF kind = "monthly"
  THEN { <<t, i>> \in (1..(Len(tbls) - 1)) \X (1..2) : i <= Len(tbls[t].rows) - 1 }
  ELSE { <<t, i>> \in (1..Len(tbls)) \X (1..2) : i <= Len(tbls[t].rows) }

\* The required columns that hold numbers
NumericColumns(kind) ==
  CASE kind = "legacy" -> {}
    [] kind = "monthly" -> 3..10
    [] OTHER -> 3..Len(TARGET_COLUMNS(kind))

HasNoDigit(cell) == \A i \in 1..Len(cell) : ~IsDigit(cell[i])

NotBlank(cell) == \E i \in 1..Len(cell) : cell[i] # " "

InSourceOrder(kind, t) ==
  /\ t.headers = TARGET_COLUMNS(kind)
  /\ \A i \in 1..Len(t.rows) : Len(t.rows[i]) = Len(t.headers)

\* C22: a row whose code and name are present and one of whose numeric
\* cells is empty or holds no number is emitted with 0 in that field, and
\* every numeric field of every emitted record is a number.
C22_UnparseableNumericIsZero ==
  Extracted =>
    /\ \A i \in 1..Len(parse.records) : \A k \in 1..Len(parse.records[i].nums) :
         parse.records[i].nums[k] \in Int
    /\ \A p \in RowsRead(parse.kind, parse.tables) :
         LET t   == parse.tables[p[1]]
             row == t.rows[p[2]]
         IN  (InSourceOrder(parse.kind, t) /\ NotBlank(row[1]) /\ NotBlank(row[2])) =>
               \A k \in NumericColumns(parse.kind) :
                 HasNoDigit(row[k]) =>
                   \E i \in 1..Len(parse.records) :
                     /\ trim(parse.records[i].code) = trim(row[1])
                     /\ trim(parse.records[i].name) = trim(row[2])
                     /\ parse.records[i].nums[k - 2] = 0

\* A required name is in no header cell of the table
LacksName(kind, t) ==
  \E k \in 1..Len(TARGET_COLUMNS(kind)) :
    \A i \in 1..Len(t.headers) :
      (IF kind \in HtmlKinds THEN trim(t.headers[i]) ELSE t.headers[i])
        # TARGET_COLUMNS(kind)[k]

Complete(t) == ~LacksName(parse.kind, t)

\* C23: a table whose header lacks a required name contributes no record,
\* whatever its rows hold, and the other tables of the response contribute
\* theirs: the JSON extractor returns nothing for such a table, and an HTML
\* extractor returns what it returns for the response without such tables.
C23_TableLackingNameIsSkipped ==
  (Extracted /\ parse.kind \in HtmlKinds \cup {"daily"}) =>
    IF parse.kind = "daily"
    THEN LacksName("daily", parse.tables[1]) => parse.records = <<>>
    ELSE /\ parse.records = htmlParseData(parse.kind, SelectSeq(parse.tables, Complete))
         /\ (\A i \in 1..Len(parse.tables) : LacksName(parse.kind, parse.tables[i]))
              => parse.records = <<>>

C23_Witness ==
  /\ Extracted /\ parse.kind = "cashflow"
  /\ Len(parse.tables) = 2
  /\ LacksName("cashflow", parse.tables[1])
  /\ Len(parse.tables[1].rows) = 2
  /\ parse.tables[2] = GoodTable("cashflow")
  /\ Len(parse.records) = 2

\* The position of a required name in the header of a table, 0 if absent;
\* the monthly extractor takes the position from its own list.
PositionOf(kind, t, k) ==
  IF kind = "monthly" THEN k
  ELSE IF kind \in HtmlKinds THEN findIndex(t.headers, TARGET_COLUMNS(kind)[k])
  ELSE fieldIndices(t.headers, TARGET_COLUMNS(kind)[k])

\* Some required column lies at or beyond the end of the row
ShortRow(kind, t, row) ==
  \E k \in 1..Len(TARGET_COLUMNS(kind)) : PositionOf(kind, t, k) > Len(row)

\* C24: a row with fewer cells than its required columns need contributes
\* no record, also when its code and name cells are present: an extractor
\* returns at most one record for each row it reads that is not short.
C24_ShortRowIsSkipped ==
  Extracted =>
    Len(parse.records) <=
      Cardinality({ p \in RowsRead(parse.kind, parse.tables) :
                      ~ShortRow(parse.kind, parse.tables[p[1]],
                                parse.tables[p[1]].rows[p[2]]) })

\* C25: every record an extractor emits has a code and a name that are not
\* empty after trimming.
C25_EmittedIdentityIsNotBlank ==
  Extracted =>
    \A i \in 1..Len(parse.records) :
      NotBlank(parse.records[i].code) /\ NotBlank(parse.records[i].name)

FullRows(t) == \A r \in 1..Len(t.rows) : Len(t.rows[r]) = Len(t.headers)

\* The table with columns i and j exchanged, in the header and in every row
SwapTable(t, i, j) ==
  [headers |-> SwapCols(t.headers, i, j),
   rows |-> [r \in 1..Len(t.rows) |-> SwapCols(t.rows[r], i, j)]]

\* C26: exchanging two columns of a table, header cells and the cells of
\* every row alike, leaves the emitted records unchanged, for every
\* extractor.
C26_ColumnOrderHasNoEffect ==
  Extracted =>
    \A n \in 1..Len(parse.tables) :
      LET t == parse.tables[n]
      IN  FullRows(t) =>
            \A i, j \in 1..Len(t.headers) :
              parseData(parse.kind, [parse.tables EXCEPT ![n] = SwapTable(t, i, j)])
                = parse.records

----------------------------------------------------------------------------
(* Properties of repeated requests *)

CodesOf(data) == {data[i].code : i \in 1..Len(data)}

OnePerCode(data) == \A i, j \in 1..Len(data) : data[i].code = data[j].code => i = j

\* Request r crawled its period and stored what it crawled
CrawledAndStored(r) ==
  req[r].pc = "done" /\ req[r].upsert = "done" /\ req[r].res.status = 200

\* Request r was answered from storage
ServedFromStorage(r) ==
  /\ req[r].pc = "done" /\ req[r].upsert = "none" /\ req[r].res.status = 200
  /\ Len(req[r].existingData) > 0

\* C27: the response of a request that crawled and stored a period and the
\* response of the next request for it, served from storage, hold the same
\* records: the same codes, one record for each code, with the same name
\* and the same values.
C27_CrawlAndCacheResponsesAgree ==
  \A r1, r2 \in Requests :
    (CrawledAndStored(r1) /\ ServedFromStorage(r2) /\ req[r1].type = req[r2].type) =>
      LET crawled == req[r1].res.data
          cached  == req[r2].res.data
      IN  /\ CodesOf(crawled) = CodesOf(cached)
          /\ OnePerCode(crawled) /\ OnePerCode(cached)
          /\ \A i \in 1..Len(crawled) : \E j \in 1..Len(cached) : cached[j] = crawled[i]

KeysOf(tbl) == {<<tbl[i].stockCode, tbl[i].date>> : i \in 1..Len(tbl)}

StockCodes(st) == {st[i].code : i \in 1..Len(st)}

PeriodStored(type, date) ==
  \E i \in 1..Len(tables[type]) : tables[type][i].date = storageDate(type, date)

\* C28: no step deletes a stored row: the stored (security, period) keys of
\* every entity type and the stored security codes only grow; and a storage
\* read of a period that has a stored row, when it does not fail, is not
\* empty and is answered without calling a source fetcher.
C28_StoredKeysOnlyGrow ==
  [][ /\ \A type \in EntityTypes : KeysOf(tables[type]) \subseteq KeysOf(tables'[type])
      /\ StockCodes(stocks) \subseteq StockCodes(stocks')
      /\ \A r \in Requests :
           (req[r].pc = "read" /\ req'[r].pc # "read"
              /\ PeriodStored(req[r].type, req[r].date) /\ ~req'[r].readFailed) =>
             /\ Len(req'[r].existingData) > 0
             /\ req'[r].pc = "done"
             /\ req'[r].res.status = 200
             /\ req'[r].calls = req[r].calls ]_vars

C28_Witness ==
  \E r \in Requests :
    /\ ServedFromStorage(r)
    /\ PeriodStored(req[r].type, req[r].date)
    /\ \A src \in Sources : req[r].calls[src] = 0
    /\ StockCodes(stocks) = {"2330"}

----------------------------------------------------------------------------
(* Properties of the merge *)

SiiThenOtc(r) == req[r].fetch["sii"].rows \o req[r].fetch["otc"].rows

InBothSources(r, code) ==
  \A src \in Sources :
    \E i \in 1..Len(req[r].fetch[src].rows) : req[r].fetch[src].rows[i].code = code

\* The last record of the secondary market for a code
LastOtc(r, code) ==
  LET rows == req[r].fetch["otc"].rows
  IN  rows[CHOOSE i \in 1..Len(rows) :
             rows[i].code = code /\ \A j \in (i + 1)..Len(rows) : rows[j].code # code]

\* C29: whichever source fetch settles first, the list that is evaluated,
\* handed to the save function and returned is the primary-market records
\* followed by the secondary-market records, each in source row order; and
\* for a code reported by both sources the save function stores the values
\* of the secondary-market record.
C29_MergeIsSiiThenOtc ==
  [][ \A r \in Requests :
        /\ (req[r].pc = "crawl" /\ req'[r].pc # "crawl" /\ ~SomeRejected(req[r])) =>
             /\ req'[r].allData = SiiThenOtc(r)
             /\ req'[r].pc = "saveStocks" => req'[r].upsertArg = SiiThenOtc(r)
             /\ req'[r].pc = "done" => req'[r].res.data = SiiThenOtc(r)
        /\ (req[r].pc = "saveRows" /\ req'[r].upsert = "done") =>
             /\ req'[r].res.data = SiiThenOtc(r)
             /\ \A code \in Codes :
                  InBothSources(r, code) =>
                    \E i \in 1..Len(tables'[req[r].type]) :
                      LET row == tables'[req[r].type][i]
                      IN  /\ row.stockCode = code /\ row.date = req[r].upsertKey
                          /\ row.val = ToColumn(req[r].type, LastOtc(r, code).val)
                          /\ row.aux = ToScale(AuxScale(req[r].type), LastOtc(r, code).aux)
    ]_vars

C29_Witness ==
  \E r \in Requests :
    /\ req[r].pc = "done" /\ req[r].upsert = "done"
    /\ req[r].settled = <<"otc", "sii">>
    /\ InBothSources(r, "2330")
    /\ req[r].res.data = SiiThenOtc(r)
    /\ req[r].type = "capital"
    /\ \E i \in 1..Len(tables["capital"]) :
         tables["capital"][i].val = LastOtc(r, "2330").val

----------------------------------------------------------------------------
(* Properties of an empty crawl *)

\* Request r ends its crawl with both fetches resolved and no record
EmptyCrawlEnds(r) ==
  /\ req[r].pc = "crawl" /\ req'[r].pc # "crawl"
  /\ ~SomeRejected(req[r])
  /\ SiiThenOtc(r) = <<>>

\* C30: a request whose crawl yields no record leaves the storage as it was
\* (no step of it before its save writes, no save is called, and a save of
\* the empty list would write nothing); nothing records the empty crawl, so
\* a request whose read finds no row for its period calls both fetchers
\* again.
C30_EmptyCrawlLeavesNoTrace ==
  [][ \A r \in Requests :
        /\ (req[r].pc \in {"idle", "read", "crawl"} /\ req'[r] # req[r]) =>
             stocks' = stocks /\ tables' = tables
        /\ EmptyCrawlEnds(r) =>
             /\ req'[r].pc = "done"
             /\ req'[r].allData = <<>>
             /\ req'[r].upserts = 0 /\ req'[r].upsert = "none"
             /\ saveStocks(stocks, req'[r].allData) = stocks
             /\ saveRows(tables[req[r].type], req[r].type, req'[r].allData, req[r].date)
                  = tables[req[r].type]
        /\ (req[r].pc = "read" /\ req'[r].pc # "read"
              /\ ~PeriodStored(req[r].type, req[r].date)) =>
             /\ req'[r].pc = "crawl"
             /\ \A src \in Sources :
                  /\ req'[r].calls[src] = req[r].calls[src] + 1
                  /\ req'[r].fetch[src].st = "pending"
    ]_vars

C30_Witness ==
  \E r1, r2 \in Requests :
    /\ r1 # r2 /\ req[r1].type = req[r2].type
    /\ req[r1].pc = "done" /\ Len(req[r1].settled) = 2
    /\ req[r1].allData = <<>> /\ req[r1].upserts = 0
    /\ req[r1].res.status \in {200, 404}
    /\ req[r2].pc = "crawl"
    /\ \A src \in Sources : req[r2].calls[src] = 1
    /\ stocks = <<>> /\ tables[req[r1].type] = <<>>

====
